---- MODULE Spec2Model ----
(***************************************************************************)
(* Access-control core of the tempo-budget backend: the budget, membership *)
(* and invitation tables and the HTTP handlers that read and write them.   *)
(* Every handler is an async task; each SQL query it awaits is one atomic  *)
(* step, so tasks interleave between queries exactly as they do on the     *)
(* shared SQLite pool.  The JWT codec that names the caller of a request  *)
(* is modelled beside it, with a clock in seconds.                         *)
(***************************************************************************)
EXTENDS Integers, FiniteSets, Bags

\* ------------------------------------------------------------------ bounds
\* rows ever inserted into budgets / budget_members / budget_invitations
MaxBudgets == 1
MaxMembers == 3
MaxInvitations == 2
\* request tasks that can be in flight at the same time
NumTasks == 2
\* tokens issued
MaxTokens == 2

\* ------------------------------------------------------------ input domains
\* users.id of the registered users, and a token subject with no users row
Alice == "alice"
Carol == "carol"
Ghost == "ghost"
RegisteredUsers == {[id |-> Alice, email |-> "alice@x.com"], [id |-> Carol, email |-> "carol@x.com"]}
Subjects == {Alice, Carol, Ghost}
\* auth.user_id of create_budget (Carol comes to own a budget through an invitation)
Creators == {Alice}
\* payload.email of invite_member: the registered emails and one nobody has
Emails == {"alice@x.com", "carol@x.com", "nobody@x.com"}
\* payload.role of invite_member is a free String
Roles == {"owner", "admin", "member"}
\* payload.budget_type of create_budget
BudgetTypes == {"personal", "group"}
BudgetIds == 1..MaxBudgets
MemberIds == 1..MaxMembers
InvitationIds == 1..MaxInvitations

VARIABLES
    users,               \* table users: rows [id, email], and password_hash where register writes them
    budgets,             \* table budgets: rows [id, user_id, budget_type]
    budget_members,      \* table budget_members: rows [id, budget_id, user_id, role]
    budget_invitations,  \* table budget_invitations: rows [id, budget_id, inviter_id, invitee_email, role, status]
    uuid,                \* Uuid::new_v4(): number of ids drawn so far, per table
    inflight,            \* bag of the handler calls in flight, each with its position (pc) and locals
    observed,            \* whether the run keeps pre and last (it does when calls run one at a time)
    pre,                 \* the tables as they were when the latest call arrived
    last,                \* the latest finished call and the status code it returned
    accepted,            \* ids of the invitations an observed accept_invitation returned OK for
    removed,             \* [budget_id, user_id] of the users an observed remove_member took the last row of
    now,                 \* chrono::Utc::now().timestamp(), in seconds
    jwt_secret,          \* the JWT_SECRET the process runs with
    leeway,              \* Validation::default().leeway of the jsonwebtoken crate the build links
    issued,              \* the create_token calls made: [user_id, at, secret, token]
    verified,            \* the latest verify_token call and its result
    extracted            \* the latest AuthUser::from_request_parts call and its result

vars == <<users, budgets, budget_members, budget_invitations, uuid, inflight, observed, pre, last,
          accepted, removed, now, jwt_secret, leeway, issued, verified, extracted>>

\* what the handlers of the store read and write
store == <<users, budgets, budget_members, budget_invitations, uuid, inflight, observed, pre, last,
           accepted, removed>>

\* what the token codec reads and writes
auth == <<now, jwt_secret, leeway, issued, verified, extracted>>

tables == <<users, budgets, budget_members, budget_invitations>>

\* ------------------------------------------------------------------- tasks
NoArgs ==
    [op |-> "none", pc |-> "none", user_id |-> "", budget_id |-> 0, invitation_id |-> 0,
     member_id |-> 0, email |-> "", role |-> "", budget_type |-> "", invitee_email |-> "",
     count |-> 0, rows |-> {}]

NoCall == [call |-> NoArgs, result |-> "none", failure |-> FALSE]

NoSnapshot == [budgets |-> {}, budget_members |-> {}, budget_invitations |-> {}, removed |-> {}]

Snapshot ==
    [budgets |-> budgets, budget_members |-> budget_members, budget_invitations |-> budget_invitations,
     removed |-> removed]

AllIdle == inflight = EmptyBag

\* how many calls in flight stand at one of the queries `pcs`
InFlightAt(pcs) ==
    BagCardinality([c \in {d \in BagToSet(inflight) : d.pc \in pcs} |-> inflight[c]])

\* calls in flight that have still to draw an id for a budget_members row
MemberInsertsAhead == InFlightAt({"accept_select_user", "accept_insert_member", "create_insert_owner"})

\* calls in flight that have still to draw an id for a budget_invitations row
InvitationInsertsAhead == InFlightAt({"invite_check_user", "invite_check_member", "invite_insert"})

\* A request arrives and a free task runs the handler's first query. `next`
\* is the query the handler waits for afterwards: "done" when it has
\* returned `code` already.
Arrive(call, next, code, failure) ==
    /\ BagCardinality(inflight) < NumTasks
    /\ inflight' = IF next = "done" THEN inflight ELSE inflight (+) SetToBag({[call EXCEPT !.pc = next]})
    /\ pre' = IF observed THEN Snapshot ELSE pre
    /\ last' = IF ~observed THEN last
               ELSE IF next = "done" THEN [call |-> call, result |-> code, failure |-> failure]
               ELSE NoCall
    /\ UNCHANGED <<observed, accepted, removed, auth>>

\* the call c in flight runs its next query and its handler goes on to `next`
Goto(c, call, next) ==
    /\ inflight' = (inflight (-) SetToBag({c})) (+) SetToBag({[call EXCEPT !.pc = next]})
    /\ UNCHANGED <<observed, pre, last, accepted, removed, auth>>

\* the call c in flight runs its next query and its handler returns `code`
Return(c, code, failure) ==
    /\ inflight' = inflight (-) SetToBag({c})
    /\ last' = IF observed THEN [call |-> c, result |-> code, failure |-> failure] ELSE last
    /\ accepted' = IF observed /\ c.op = "accept_invitation" /\ code = "OK"
                   THEN accepted \cup {c.invitation_id}
                   ELSE accepted
    /\ removed' = IF observed /\ c.op = "remove_member" /\ code = "NO_CONTENT"
                  THEN removed \cup
                       {[budget_id |-> m.budget_id, user_id |-> m.user_id] :
                           m \in {d \in budget_members \ budget_members' :
                                     ~\E k \in budget_members' :
                                         k.budget_id = d.budget_id /\ k.user_id = d.user_id}}
                  ELSE removed
    /\ UNCHANGED <<observed, pre, auth>>

\* the call c in flight runs its last query and its handler returns `code`
\* with a body: `call` is c with the rows of the body
ReturnWith(c, call, code) ==
    /\ inflight' = inflight (-) SetToBag({c})
    /\ last' = IF observed THEN [call |-> call, result |-> code, failure |-> FALSE] ELSE last
    /\ UNCHANGED <<observed, pre, accepted, removed, auth>>

\* ----------------------------------------------------------------- queries
\* the owner count with a role hierarchy: an admin passes for an owner
CountOwnerOrAdmin(budget_id, user_id) ==
    Cardinality({m \in budget_members :
                    m.budget_id = budget_id /\ m.user_id = user_id /\ m.role \in {"owner", "admin"}})

\* SELECT COUNT(*) FROM budget_members WHERE budget_id = ? AND user_id = ? AND role = 'owner'
CountOwner(budget_id, user_id) ==
    Cardinality({m \in budget_members : m.budget_id = budget_id /\ m.user_id = user_id /\ m.role = "owner"})

\* SELECT COUNT(*) FROM budget_members WHERE budget_id = ? AND user_id = ?
CountMember(budget_id, user_id) ==
    Cardinality({m \in budget_members : m.budget_id = budget_id /\ m.user_id = user_id})

\* SELECT bm.id, bm.budget_id, bm.user_id, bm.role, u.email as user_email
\* FROM budget_members bm JOIN users u ON bm.user_id = u.id WHERE bm.budget_id = ?
SelectMembersWithUser(budget_id) ==
    {[id |-> m.id, budget_id |-> m.budget_id, user_id |-> m.user_id, role |-> m.role,
      user_email |-> u.email] :
        <<m, u>> \in {x \in budget_members \X users : x[1].budget_id = budget_id /\ x[1].user_id = x[2].id}}

\* SELECT COUNT(*) FROM users WHERE email = ?
CountUsersByEmail(email) ==
    Cardinality({u \in users : u.email = email})

\* SELECT COUNT(*) FROM budget_members bm JOIN users u ON bm.user_id = u.id WHERE bm.budget_id = ? AND u.email = ?
CountMembersByEmail(budget_id, email) ==
    Cardinality({m \in budget_members : m.budget_id = budget_id /\ \E u \in users : u.id = m.user_id /\ u.email = email})

\* SELECT ... FROM budget_invitations WHERE id = ?
SelectInvitation(id) == {i \in budget_invitations : i.id = id}

\* SELECT email FROM users WHERE id = ?
SelectUserEmail(user_id) == {u.email : u \in {v \in users : v.id = user_id}}

\* the invitations to an email, whatever their status
SelectInvitationsAnyStatus(email) ==
    {i \in budget_invitations :
        /\ i.invitee_email = email
        /\ \E b \in budgets : b.id = i.budget_id
        /\ \E u \in users : u.id = i.inviter_id}

\* SELECT bi.* FROM budget_invitations bi JOIN budgets b ON bi.budget_id = b.id
\* JOIN users u ON bi.inviter_id = u.id WHERE bi.invitee_email = ? AND bi.status = 'pending'
SelectPendingInvitations(email) ==
    {i \in budget_invitations :
        /\ i.invitee_email = email /\ i.status = "pending"
        /\ \E b \in budgets : b.id = i.budget_id
        /\ \E u \in users : u.id = i.inviter_id}

\* UPDATE budget_invitations SET status = ? WHERE id = ?
UpdateStatus(id, status) ==
    {IF i.id = id THEN [i EXCEPT !.status = status] ELSE i : i \in budget_invitations}

\* INSERT INTO budget_members (id, budget_id, user_id, role, created_at): the
\* table, created by schema.sql, carries no uniqueness constraint on
\* (budget_id, user_id), so the insert of a fresh id always adds a row
InsertMember(row) == budget_members \cup {row}

\* DELETE FROM budget_members WHERE id = ?
DeleteMemberAnyBudget(member_id, budget_id) ==
    {m \in budget_members : m.id # member_id}

\* DELETE FROM budget_members WHERE id = ? AND budget_id = ?
DeleteMember(member_id, budget_id) ==
    {m \in budget_members : ~(m.id = member_id /\ m.budget_id = budget_id)}

\* SELECT COUNT(*) FROM budgets WHERE id = ? AND user_id = ?
CountMyBudget(id, user_id) ==
    Cardinality({b \in budgets : b.id = id /\ b.user_id = user_id})

\* DELETE FROM budgets WHERE id = ?
DeleteBudgetRow(id) == {b \in budgets : b.id # id}

\* what the delete of budget `id` leaves in budget_members: the table,
\* created by schema.sql, references budgets ON DELETE CASCADE
MembersAfterCascade(id) == {m \in budget_members : m.budget_id # id}

\* what the delete of budget `id` leaves in budget_invitations, likewise
InvitationsAfterCascade(id) == {i \in budget_invitations : i.budget_id # id}

\* the status code the handler's map_err gives a failed query
QueryError(query) ==
    IF query \in {"accept_select_invitation", "reject_select_invitation"}
    THEN "NOT_FOUND"
    ELSE "INTERNAL_SERVER_ERROR"

\* the first query of each handler
FirstQuery(op) ==
    CASE op = "create_budget" -> "create_insert_budget"
      [] op = "invite_member" -> "invite_check_owner"
      [] op = "remove_member" -> "remove_check_owner"
      [] op = "accept_invitation" -> "accept_select_invitation"
      [] op = "reject_invitation" -> "reject_select_invitation"
      [] op = "delete_budget" -> "delete_check_owner"
      [] op = "get_budget_members" -> "members_check_member"
      [] op = "get_my_invitations" -> "invitations_select_email"

\* --------------------------------------------------------- create_budget
CreateBudgetCall(user_id, budget_type) ==
    [NoArgs EXCEPT !.op = "create_budget", !.user_id = user_id, !.budget_type = budget_type]

\* create_budget that adds the owner row whatever the budget's type
CreateInsertBudgetAnyType(user_id, budget_type) ==
    /\ uuid.budget < MaxBudgets
    /\ uuid.member + MemberInsertsAhead < MaxMembers
    /\ LET id == uuid.budget + 1 IN
       /\ budgets' = budgets \cup {[id |-> id, user_id |-> user_id, budget_type |-> budget_type]}
       /\ uuid' = [uuid EXCEPT !.budget = id]
       /\ Arrive([CreateBudgetCall(user_id, budget_type) EXCEPT !.budget_id = id],
                 "create_insert_owner", "none", FALSE)
    /\ UNCHANGED <<users, budget_members, budget_invitations>>

CreateInsertBudget(user_id, budget_type) ==
    /\ uuid.budget < MaxBudgets
    /\ budget_type = "group" => uuid.member + MemberInsertsAhead < MaxMembers
    /\ LET id == uuid.budget + 1 IN
       /\ budgets' = budgets \cup {[id |-> id, user_id |-> user_id, budget_type |-> budget_type]}
       /\ uuid' = [uuid EXCEPT !.budget = id]
       /\ Arrive([CreateBudgetCall(user_id, budget_type) EXCEPT !.budget_id = id],
                 IF budget_type = "group" THEN "create_insert_owner" ELSE "create_select_budget",
                 "none", FALSE)
    /\ UNCHANGED <<users, budget_members, budget_invitations>>

CreateInsertOwner(c) ==
    /\ c.pc = "create_insert_owner"
    /\ LET member_id == uuid.member + 1 IN
       /\ budget_members' = InsertMember(
              [id |-> member_id, budget_id |-> c.budget_id, user_id |-> c.user_id, role |-> "owner"])
       /\ uuid' = [uuid EXCEPT !.member = member_id]
    /\ Goto(c, c, "create_select_budget")
    /\ UNCHANGED <<users, budgets, budget_invitations>>

CreateSelectBudget(c) ==
    /\ c.pc = "create_select_budget"
    /\ IF \E b \in budgets : b.id = c.budget_id
       THEN Return(c, "OK", FALSE)
       ELSE Return(c, "INTERNAL_SERVER_ERROR", FALSE)
    /\ UNCHANGED <<tables, uuid>>

\* --------------------------------------------------------- invite_member
InviteMemberCall(user_id, budget_id, email, role) ==
    [NoArgs EXCEPT !.op = "invite_member", !.user_id = user_id, !.budget_id = budget_id,
                 !.email = email, !.role = role]

\* invite_member that looks the email up before it checks the caller
InviteCheckUserFirst(user_id, budget_id, email, role) ==
    /\ uuid.invitation + InvitationInsertsAhead < MaxInvitations
    /\ IF CountUsersByEmail(email) = 0
       THEN Arrive(InviteMemberCall(user_id, budget_id, email, role), "done", "NOT_FOUND", FALSE)
       ELSE IF CountOwner(budget_id, user_id) = 0
            THEN Arrive(InviteMemberCall(user_id, budget_id, email, role), "done", "FORBIDDEN", FALSE)
            ELSE Arrive(InviteMemberCall(user_id, budget_id, email, role), "invite_check_member", "none", FALSE)
    /\ UNCHANGED <<tables, uuid>>

\* invite_member that lets any caller invite
InviteUnchecked(user_id, budget_id, email, role) ==
    /\ uuid.invitation + InvitationInsertsAhead < MaxInvitations
    /\ Arrive(InviteMemberCall(user_id, budget_id, email, role), "invite_check_user", "none", FALSE)
    /\ UNCHANGED <<tables, uuid>>

\* invite_member that also lets the creator of the budget invite, as
\* delete_budget lets the creator delete
InviteCheckOwnerOrCreator(user_id, budget_id, email, role) ==
    /\ uuid.invitation + InvitationInsertsAhead < MaxInvitations
    /\ IF CountOwner(budget_id, user_id) = 0 /\ CountMyBudget(budget_id, user_id) = 0
       THEN Arrive(InviteMemberCall(user_id, budget_id, email, role), "done", "FORBIDDEN", FALSE)
       ELSE Arrive(InviteMemberCall(user_id, budget_id, email, role), "invite_check_user", "none", FALSE)
    /\ UNCHANGED <<tables, uuid>>

InviteCheckOwner(user_id, budget_id, email, role) ==
    /\ uuid.invitation + InvitationInsertsAhead < MaxInvitations
    /\ IF CountOwner(budget_id, user_id) = 0
       THEN Arrive(InviteMemberCall(user_id, budget_id, email, role), "done", "FORBIDDEN", FALSE)
       ELSE Arrive(InviteMemberCall(user_id, budget_id, email, role), "invite_check_user", "none", FALSE)
    /\ UNCHANGED <<tables, uuid>>

InviteCheckUser(c) ==
    /\ c.pc = "invite_check_user"
    /\ IF CountUsersByEmail(c.email) = 0
       THEN Return(c, "NOT_FOUND", FALSE)
       ELSE Goto(c, c, "invite_check_member")
    /\ UNCHANGED <<tables, uuid>>


\* invite_member without its already-a-member check
InviteSkipsMemberCheck(c) ==
    /\ c.pc = "invite_check_member"
    /\ Goto(c, c, "invite_insert")
    /\ UNCHANGED <<tables, uuid>>

InviteCheckMember(c) ==
    /\ c.pc = "invite_check_member"
    /\ IF CountMembersByEmail(c.budget_id, c.email) > 0
       THEN Return(c, "CONFLICT", FALSE)
       ELSE Goto(c, c, "invite_insert")
    /\ UNCHANGED <<tables, uuid>>


\* invite_member that refuses a second pending invitation to the same email
InviteInsertUnlessPending(c) ==
    /\ c.pc = "invite_insert"
    /\ IF \E i \in budget_invitations :
              i.budget_id = c.budget_id /\ i.invitee_email = c.email /\ i.status = "pending"
       THEN /\ Return(c, "CONFLICT", FALSE)
            /\ UNCHANGED <<tables, uuid>>
       ELSE /\ LET id == uuid.invitation + 1 IN
               /\ budget_invitations' = budget_invitations \cup
                      {[id |-> id, budget_id |-> c.budget_id, inviter_id |-> c.user_id,
                        invitee_email |-> c.email, role |-> c.role, status |-> "pending"]}
               /\ uuid' = [uuid EXCEPT !.invitation = id]
            /\ Return(c, "CREATED", FALSE)
            /\ UNCHANGED <<users, budgets, budget_members>>

InviteInsert(c) ==
    /\ c.pc = "invite_insert"
    /\ LET id == uuid.invitation + 1 IN
       /\ budget_invitations' = budget_invitations \cup
              {[id |-> id, budget_id |-> c.budget_id, inviter_id |-> c.user_id,
                invitee_email |-> c.email, role |-> c.role, status |-> "pending"]}
       /\ uuid' = [uuid EXCEPT !.invitation = id]
    /\ Return(c, "CREATED", FALSE)
    /\ UNCHANGED <<users, budgets, budget_members>>

\* --------------------------------------------------------- remove_member
RemoveMemberCall(user_id, budget_id, member_id) ==
    [NoArgs EXCEPT !.op = "remove_member", !.user_id = user_id, !.budget_id = budget_id,
                 !.member_id = member_id]

\* remove_member open to every member of the budget
RemoveCheckMember(user_id, budget_id, member_id) ==
    /\ IF CountMember(budget_id, user_id) = 0
       THEN Arrive(RemoveMemberCall(user_id, budget_id, member_id), "done", "FORBIDDEN", FALSE)
       ELSE Arrive(RemoveMemberCall(user_id, budget_id, member_id), "remove_delete", "none", FALSE)
    /\ UNCHANGED <<tables, uuid>>

RemoveCheckOwner(user_id, budget_id, member_id) ==
    /\ IF CountOwner(budget_id, user_id) = 0
       THEN Arrive(RemoveMemberCall(user_id, budget_id, member_id), "done", "FORBIDDEN", FALSE)
       ELSE Arrive(RemoveMemberCall(user_id, budget_id, member_id), "remove_delete", "none", FALSE)
    /\ UNCHANGED <<tables, uuid>>

RemoveDelete(c) ==
    /\ c.pc = "remove_delete"
    /\ budget_members' = DeleteMember(c.member_id, c.budget_id)
    /\ Return(c, "NO_CONTENT", FALSE)
    /\ UNCHANGED <<users, budgets, budget_invitations, uuid>>

\* --------------------------------------------------------- delete_budget
DeleteBudgetCall(user_id, budget_id) ==
    [NoArgs EXCEPT !.op = "delete_budget", !.user_id = user_id, !.budget_id = budget_id]

\* is_owner is kept for the test after the second count
DeleteCheckOwner(user_id, budget_id) ==
    /\ Arrive([DeleteBudgetCall(user_id, budget_id) EXCEPT !.count = CountOwner(budget_id, user_id)],
              "delete_check_my_budget", "none", FALSE)
    /\ UNCHANGED <<tables, uuid>>

DeleteCheckMyBudget(c) ==
    /\ c.pc = "delete_check_my_budget"
    /\ IF c.count = 0 /\ CountMyBudget(c.budget_id, c.user_id) = 0
       THEN Return(c, "FORBIDDEN", FALSE)
       ELSE Goto(c, c, "delete_budget_row")
    /\ UNCHANGED <<tables, uuid>>

\* delete_budget on tables that do not cascade
DeleteBudgetRowOnly(c) ==
    /\ c.pc = "delete_budget_row"
    /\ budgets' = DeleteBudgetRow(c.budget_id)
    /\ Return(c, "NO_CONTENT", FALSE)
    /\ UNCHANGED <<users, budget_members, budget_invitations, uuid>>

DeleteBudgetDelete(c) ==
    /\ c.pc = "delete_budget_row"
    /\ budgets' = DeleteBudgetRow(c.budget_id)
    /\ budget_members' = MembersAfterCascade(c.budget_id)
    /\ budget_invitations' = InvitationsAfterCascade(c.budget_id)
    /\ Return(c, "NO_CONTENT", FALSE)
    /\ UNCHANGED <<users, uuid>>

\* ---------------------------------------------------- get_budget_members
GetBudgetMembersCall(user_id, budget_id) ==
    [NoArgs EXCEPT !.op = "get_budget_members", !.user_id = user_id, !.budget_id = budget_id]

\* get_budget_members that lists the members for any caller
GetMembersUnchecked(user_id, budget_id) ==
    /\ Arrive(GetBudgetMembersCall(user_id, budget_id), "members_select", "none", FALSE)
    /\ UNCHANGED <<tables, uuid>>

\* get_budget_members that takes an accepted invitation as membership,
\* without reading the membership rows again
GetMembersIfEverMember(user_id, budget_id) ==
    /\ IF /\ CountMember(budget_id, user_id) = 0
          /\ ~\E i \in budget_invitations, u \in users :
                 /\ i.budget_id = budget_id /\ i.status = "accepted"
                 /\ u.id = user_id /\ u.email = i.invitee_email
       THEN Arrive(GetBudgetMembersCall(user_id, budget_id), "done", "FORBIDDEN", FALSE)
       ELSE Arrive(GetBudgetMembersCall(user_id, budget_id), "members_select", "none", FALSE)
    /\ UNCHANGED <<tables, uuid>>

GetMembersCheckMember(user_id, budget_id) ==
    /\ IF CountMember(budget_id, user_id) = 0
       THEN Arrive(GetBudgetMembersCall(user_id, budget_id), "done", "FORBIDDEN", FALSE)
       ELSE Arrive(GetBudgetMembersCall(user_id, budget_id), "members_select", "none", FALSE)
    /\ UNCHANGED <<tables, uuid>>

GetMembersSelect(c) ==
    /\ c.pc = "members_select"
    /\ ReturnWith(c, [c EXCEPT !.rows = SelectMembersWithUser(c.budget_id)], "OK")
    /\ UNCHANGED <<tables, uuid>>

\* ---------------------------------------------------- get_my_invitations
GetMyInvitationsCall(user_id) ==
    [NoArgs EXCEPT !.op = "get_my_invitations", !.user_id = user_id]

\* fetch_one fails when the token's subject has no users row
GetInvitationsSelectEmail(user_id) ==
    /\ IF SelectUserEmail(user_id) = {}
       THEN Arrive(GetMyInvitationsCall(user_id), "done", "INTERNAL_SERVER_ERROR", FALSE)
       ELSE Arrive([GetMyInvitationsCall(user_id) EXCEPT
                        !.email = CHOOSE e \in SelectUserEmail(user_id) : TRUE],
                   "invitations_select", "none", FALSE)
    /\ UNCHANGED <<tables, uuid>>

GetInvitationsSelect(c) ==
    /\ c.pc = "invitations_select"
    /\ ReturnWith(c, [c EXCEPT !.rows = SelectPendingInvitations(c.email)], "OK")
    /\ UNCHANGED <<tables, uuid>>

\* ----------------------------------------------------- accept_invitation
AcceptInvitationCall(user_id, invitation_id) ==
    [NoArgs EXCEPT !.op = "accept_invitation", !.user_id = user_id, !.invitation_id = invitation_id]

AcceptSelectInvitation(user_id, invitation_id) ==
    /\ uuid.member + MemberInsertsAhead < MaxMembers
    /\ IF SelectInvitation(invitation_id) = {}
       THEN Arrive(AcceptInvitationCall(user_id, invitation_id), "done", "NOT_FOUND", FALSE)
       ELSE LET invitation == CHOOSE i \in SelectInvitation(invitation_id) : TRUE IN
            IF invitation.status # "pending"
            THEN Arrive(AcceptInvitationCall(user_id, invitation_id), "done", "BAD_REQUEST", FALSE)
            ELSE Arrive([AcceptInvitationCall(user_id, invitation_id) EXCEPT
                                !.budget_id = invitation.budget_id,
                                !.invitee_email = invitation.invitee_email,
                                !.role = invitation.role],
                        "accept_select_user", "none", FALSE)
    /\ UNCHANGED <<tables, uuid>>

\* accept_invitation that inserts the membership before it compares the emails
AcceptInsertsBeforeEmailCheck(c) ==
    /\ c.pc = "accept_select_user"
    /\ IF SelectUserEmail(c.user_id) = {}
       THEN Return(c, "INTERNAL_SERVER_ERROR", FALSE) /\ UNCHANGED <<tables, uuid>>
       ELSE IF SelectUserEmail(c.user_id) # {c.invitee_email}
            THEN /\ budget_members' = InsertMember(
                        [id |-> uuid.member + 1, budget_id |-> c.budget_id,
                         user_id |-> c.user_id, role |-> c.role])
                 /\ uuid' = [uuid EXCEPT !.member = uuid.member + 1]
                 /\ Return(c, "FORBIDDEN", FALSE)
                 /\ UNCHANGED <<users, budgets, budget_invitations>>
            ELSE Goto(c, c, "accept_insert_member") /\ UNCHANGED <<tables, uuid>>

AcceptSelectUser(c) ==
    /\ c.pc = "accept_select_user"
    /\ IF SelectUserEmail(c.user_id) = {}
       THEN Return(c, "INTERNAL_SERVER_ERROR", FALSE)
       ELSE IF SelectUserEmail(c.user_id) # {c.invitee_email}
            THEN Return(c, "FORBIDDEN", FALSE)
            ELSE Goto(c, c, "accept_insert_member")
    /\ UNCHANGED <<tables, uuid>>

\* accept_invitation that makes every invitee a plain member
AcceptInsertPlainMember(c) ==
    /\ c.pc = "accept_insert_member"
    /\ LET member_id == uuid.member + 1 IN
       /\ budget_members' = InsertMember(
              [id |-> member_id, budget_id |-> c.budget_id, user_id |-> c.user_id, role |-> "member"])
       /\ uuid' = [uuid EXCEPT !.member = member_id]
       /\ Goto(c, [c EXCEPT !.member_id = member_id], "accept_update_status")
    /\ UNCHANGED <<users, budgets, budget_invitations>>

\* accept_invitation that reads the status again before it inserts
AcceptInsertIfPending(c) ==
    /\ c.pc = "accept_insert_member"
    /\ IF \E i \in SelectInvitation(c.invitation_id) : i.status # "pending"
       THEN Return(c, "BAD_REQUEST", FALSE) /\ UNCHANGED <<tables, uuid>>
       ELSE LET member_id == uuid.member + 1 IN
            /\ budget_members' = InsertMember(
                   [id |-> member_id, budget_id |-> c.budget_id, user_id |-> c.user_id, role |-> c.role])
            /\ uuid' = [uuid EXCEPT !.member = member_id]
            /\ Goto(c, [c EXCEPT !.member_id = member_id], "accept_update_status")
            /\ UNCHANGED <<users, budgets, budget_invitations>>

AcceptInsertMember(c) ==
    /\ c.pc = "accept_insert_member"
    /\ LET member_id == uuid.member + 1 IN
       /\ budget_members' = InsertMember(
              [id |-> member_id, budget_id |-> c.budget_id, user_id |-> c.user_id, role |-> c.role])
       /\ uuid' = [uuid EXCEPT !.member = member_id]
       /\ Goto(c, [c EXCEPT !.member_id = member_id], "accept_update_status")
    /\ UNCHANGED <<users, budgets, budget_invitations>>


\* accept_invitation that returns without marking the invitation accepted
AcceptLeavesStatus(c) ==
    /\ c.pc = "accept_update_status"
    /\ Return(c, "OK", FALSE)
    /\ UNCHANGED <<tables, uuid>>

AcceptUpdateStatus(c) ==
    /\ c.pc = "accept_update_status"
    /\ budget_invitations' = UpdateStatus(c.invitation_id, "accepted")
    /\ Return(c, "OK", FALSE)
    /\ UNCHANGED <<users, budgets, budget_members, uuid>>

\* ----------------------------------------------------- reject_invitation
RejectInvitationCall(user_id, invitation_id) ==
    [NoArgs EXCEPT !.op = "reject_invitation", !.user_id = user_id, !.invitation_id = invitation_id]


\* reject_invitation without its status check
RejectSelectInvitationAnyStatus(user_id, invitation_id) ==
    /\ IF SelectInvitation(invitation_id) = {}
       THEN Arrive(RejectInvitationCall(user_id, invitation_id), "done", "NOT_FOUND", FALSE)
       ELSE LET invitation == CHOOSE i \in SelectInvitation(invitation_id) : TRUE IN
            Arrive([RejectInvitationCall(user_id, invitation_id) EXCEPT
                        !.invitee_email = invitation.invitee_email],
                   "reject_select_user", "none", FALSE)
    /\ UNCHANGED <<tables, uuid>>

RejectSelectInvitation(user_id, invitation_id) ==
    /\ IF SelectInvitation(invitation_id) = {}
       THEN Arrive(RejectInvitationCall(user_id, invitation_id), "done", "NOT_FOUND", FALSE)
       ELSE LET invitation == CHOOSE i \in SelectInvitation(invitation_id) : TRUE IN
            IF invitation.status # "pending"
            THEN Arrive(RejectInvitationCall(user_id, invitation_id), "done", "BAD_REQUEST", FALSE)
            ELSE Arrive([RejectInvitationCall(user_id, invitation_id) EXCEPT
                                !.invitee_email = invitation.invitee_email],
                        "reject_select_user", "none", FALSE)
    /\ UNCHANGED <<tables, uuid>>

RejectSelectUser(c) ==
    /\ c.pc = "reject_select_user"
    /\ IF SelectUserEmail(c.user_id) = {}
       THEN Return(c, "INTERNAL_SERVER_ERROR", FALSE)
       ELSE IF SelectUserEmail(c.user_id) # {c.invitee_email}
            THEN Return(c, "FORBIDDEN", FALSE)
            ELSE Goto(c, c, "reject_update_status")
    /\ UNCHANGED <<tables, uuid>>


\* reject_invitation whose UPDATE has lost its WHERE clause
RejectUpdateEveryStatus(c) ==
    /\ c.pc = "reject_update_status"
    /\ budget_invitations' = {[i EXCEPT !.status = "rejected"] : i \in budget_invitations}
    /\ Return(c, "OK", FALSE)
    /\ UNCHANGED <<users, budgets, budget_members, uuid>>

RejectUpdateStatus(c) ==
    /\ c.pc = "reject_update_status"
    /\ budget_invitations' = UpdateStatus(c.invitation_id, "rejected")
    /\ Return(c, "OK", FALSE)
    /\ UNCHANGED <<users, budgets, budget_members, uuid>>

\* --------------------------------------------------------- storage failure
\* the first query of an arriving call fails: nothing is written and the
\* handler returns what its map_err says
FirstQueryFails(call) ==
    /\ Arrive(call, "done", QueryError(FirstQuery(call.op)), TRUE)
    /\ UNCHANGED <<tables, uuid>>

\* the query task t is about to run fails
QueryFails(c) ==
    /\ Return(c, QueryError(c.pc), TRUE)
    /\ UNCHANGED <<tables, uuid>>

\* ------------------------------------------------------------------ tokens
\* chrono::Duration::hours(24), as .timestamp() counts it
TokenHours == 24
SecondsPerHour == 3600
TokenLifetime == TokenHours * SecondsPerHour

\* Validation::default() allows this many seconds past exp in jsonwebtoken 8
\* and 9, and none in jsonwebtoken 7; the source sets no leeway of its own
DefaultLeeway == 60
Leeways == {0, DefaultLeeway}

\* env::var("JWT_SECRET").unwrap_or_else(|_| "secret".to_string())
Secrets == {"secret", "k1"}

\* the moments the clock is read at: the issue of a token and moments around
\* its expiry
IssueTimes == {0, 1}
Instants ==
    {t + d : t \in IssueTimes,
             d \in {0, TokenLifetime - 1, TokenLifetime, TokenLifetime + 1,
                    TokenLifetime + DefaultLeeway, TokenLifetime + DefaultLeeway + 1}}

\* HS256 over header and claims: only the same secret over the same claims
\* gives the same signature
Sign(secret, claims) == <<"HS256", secret, claims.sub, claims.exp>>

\* encode(&Header::default(), &claims, &EncodingKey::from_secret(secret))
Encode(claims, secret) == [payload |-> claims, signature |-> Sign(secret, claims)]

\* a string that is not three base64 segments separated by dots
Malformed == [payload |-> [sub |-> "", exp |-> 0], signature |-> <<>>]

\* a decode that takes the claims of any well-formed token without verifying
\* its signature
DecodeUnverified(token, secret, time, allowed) ==
    IF token = Malformed
    THEN [error |-> "InvalidToken", claims |-> [sub |-> "", exp |-> 0]]
    ELSE IF token.payload.exp < time - allowed
         THEN [error |-> "ExpiredSignature", claims |-> [sub |-> "", exp |-> 0]]
         ELSE [error |-> "none", claims |-> token.payload]

\* a decode with revocation: the token of a user who accepted an invitation
\* to a budget and is no longer a member of it is refused
DecodeUnlessRemoved(token, secret, time, allowed) ==
    IF token = Malformed
    THEN [error |-> "InvalidToken", claims |-> [sub |-> "", exp |-> 0]]
    ELSE IF token.signature # Sign(secret, token.payload)
         THEN [error |-> "InvalidSignature", claims |-> [sub |-> "", exp |-> 0]]
         ELSE IF \/ token.payload.exp < time - allowed
                 \/ \E i \in budget_invitations, u \in users :
                        /\ u.id = token.payload.sub /\ u.email = i.invitee_email
                        /\ i.status = "accepted"
                        /\ ~\E m \in budget_members :
                               m.budget_id = i.budget_id /\ m.user_id = u.id
              THEN [error |-> "ExpiredSignature", claims |-> [sub |-> "", exp |-> 0]]
              ELSE [error |-> "none", claims |-> token.payload]

\* decode::<Claims>(token, &DecodingKey::from_secret(secret), &Validation::default()):
\* the token is split, the signature is verified, then exp against the clock
Decode(token, secret, time, allowed) ==
    IF token = Malformed
    THEN [error |-> "InvalidToken", claims |-> [sub |-> "", exp |-> 0]]
    ELSE IF token.signature # Sign(secret, token.payload)
         THEN [error |-> "InvalidSignature", claims |-> [sub |-> "", exp |-> 0]]
         ELSE IF token.payload.exp < time - allowed
              THEN [error |-> "ExpiredSignature", claims |-> [sub |-> "", exp |-> 0]]
              ELSE [error |-> "none", claims |-> token.payload]

NoVerdict ==
    [token |-> Encode([sub |-> "", exp |-> 0], ""), at |-> 0, secret |-> "",
     error |-> "none", claims |-> [sub |-> "", exp |-> 0]]

\* create_token signing with the fallback secret whatever JWT_SECRET is
CreateTokenFallbackSecret(user_id) ==
    /\ Cardinality(issued) < MaxTokens
    /\ now \in IssueTimes
    /\ issued' = issued \cup
           {[user_id |-> user_id, at |-> now, secret |-> jwt_secret,
             token |-> Encode([sub |-> user_id, exp |-> now + TokenLifetime], "secret")]}
    /\ UNCHANGED <<store, now, jwt_secret, leeway, verified, extracted>>

create_token(user_id) ==
    /\ Cardinality(issued) < MaxTokens
    /\ now \in IssueTimes
    /\ issued' = issued \cup
           {[user_id |-> user_id, at |-> now, secret |-> jwt_secret,
             token |-> Encode([sub |-> user_id, exp |-> now + TokenLifetime], jwt_secret)]}
    /\ UNCHANGED <<store, now, jwt_secret, leeway, verified, extracted>>

verify_token(token) ==
    /\ verified' = [token |-> token, at |-> now, secret |-> jwt_secret,
                    error |-> Decode(token, jwt_secret, now, leeway).error,
                    claims |-> Decode(token, jwt_secret, now, leeway).claims]
    /\ UNCHANGED <<store, now, jwt_secret, leeway, issued, extracted>>

\* time passes
Tick(time) ==
    /\ time > now
    /\ now' = time
    /\ UNCHANGED <<store, jwt_secret, leeway, issued, verified, extracted>>

\* the process is started again with another JWT_SECRET; clients keep their tokens
Restart(secret) ==
    /\ secret # jwt_secret
    /\ jwt_secret' = secret
    /\ UNCHANGED <<store, now, leeway, issued, verified, extracted>>

\* --------------------------------------------------------------- AuthUser
\* tokens a client can make up without the server: any subject and expiry,
\* signed with a secret of its own choice
ForgerSecrets == {"guess", "secret"}
ForgedExpiries == {0, 3 * TokenLifetime}
Forged ==
    {Encode([sub |-> sub, exp |-> exp], secret) :
        sub \in Subjects, exp \in ForgedExpiries, secret \in ForgerSecrets}

\* the Authorization header of a request: absent, or bytes that are visible
\* ASCII or not, starting with a scheme and carrying a token
Schemes == {"Bearer ", "Basic "}
NoHeader == [present |-> FALSE, text |-> FALSE, scheme |-> "", token |-> Malformed]
NotText == [present |-> TRUE, text |-> FALSE, scheme |-> "Bearer ", token |-> Malformed]
Headers(tokens) ==
    {NoHeader, NotText}
    \cup {[present |-> TRUE, text |-> TRUE, scheme |-> scheme, token |-> token] :
             scheme \in Schemes, token \in tokens}

\* the tokens a request can carry: issued ones, made-up ones, garbage
Presentable == {r.token : r \in issued} \cup Forged \cup {Malformed}

Unauthorized == [status |-> "UNAUTHORIZED", user_id |-> ""]

\* an extractor that takes the token after any scheme
AuthUserAnyScheme(header) ==
    IF ~header.present \/ ~header.text
    THEN Unauthorized
    ELSE LET decoded == Decode(header.token, jwt_secret, now, leeway)
         IN  IF decoded.error # "none"
             THEN Unauthorized
             ELSE [status |-> "OK", user_id |-> decoded.claims.sub]

\* Result<AuthUser, StatusCode> of the extractor for a request with `header`
AuthUser(header) ==
    IF ~header.present \/ ~header.text
    THEN Unauthorized
    ELSE IF header.scheme # "Bearer "
         THEN Unauthorized
         ELSE LET decoded == Decode(header.token, jwt_secret, now, leeway)
              IN  IF decoded.error # "none"
                  THEN Unauthorized
                  ELSE [status |-> "OK", user_id |-> decoded.claims.sub]

NoIdentity ==
    [header |-> NoHeader, at |-> 0, secret |-> "", result |-> [status |-> "none", user_id |-> ""]]

\* the extractor runs on a request; it calls verify_token when the header
\* has the Bearer scheme
from_request_parts(header) ==
    /\ extracted' = [header |-> header, at |-> now, secret |-> jwt_secret,
                     result |-> AuthUser(header)]
    /\ verified' = IF header.present /\ header.text /\ header.scheme = "Bearer "
                   THEN [token |-> header.token, at |-> now, secret |-> jwt_secret,
                         error |-> Decode(header.token, jwt_secret, now, leeway).error,
                         claims |-> Decode(header.token, jwt_secret, now, leeway).claims]
                   ELSE verified
    /\ UNCHANGED <<store, now, jwt_secret, leeway, issued>>

\* no token issued or verified
NoTokens ==
    /\ now = 0
    /\ jwt_secret = "secret"
    /\ leeway = DefaultLeeway
    /\ issued = {}
    /\ verified = NoVerdict
    /\ extracted = NoIdentity

\* ------------------------------------------------------ register and login
MaxUsers == 2

\* payload.password of register and login
Passwords == {"pw1", "pw2"}
\* the salts bcrypt::hash draws
Salts == {"s1", "s2"}

\* bcrypt over a salt and a password: only the same password under the same
\* salt gives the same digest
Bcrypt(salt, password) == <<"2b", salt, password>>

\* bcrypt::hash(&payload.password, bcrypt::DEFAULT_COST), with the salt it drew
hash(password, salt) == [salt |-> salt, digest |-> Bcrypt(salt, password)]

\* bcrypt::verify(&payload.password, &user.password_hash)
verify(password, password_hash) == Bcrypt(password_hash.salt, password) = password_hash.digest

\* SELECT ... FROM users WHERE email = ?
SelectUserByEmail(email) == {u \in users : u.email = email}

\* SELECT ... FROM users WHERE id = ?
SelectUserById(id) == {u \in users : u.id = id}

\* INSERT INTO users (id, email, name, password_hash, ...): the table, created
\* by schema.sql, keeps email unique, so the insert fails when the email is taken
EmailTaken(email) == SelectUserByEmail(email) # {}

RegisterCall(email, password) ==
    [op |-> "register", pc |-> "none", email |-> email, password |-> password, id |-> ""]

LoginCall(email, password) ==
    [op |-> "login", pc |-> "none", email |-> email, password |-> password, id |-> ""]

\* Result<Json<AuthResponse>, StatusCode>: the status, and the body of an Ok
NoBody == {}
AuthResponse(user) ==
    {[token |-> Encode([sub |-> user.id, exp |-> now + TokenLifetime], jwt_secret), user |-> user]}

\* the handler returns `code`, with the token it made for `body` if any
Respond(call, code, failure, body) ==
    /\ last' = [call |-> call, result |-> code, failure |-> failure, body |-> body]
    /\ issued' = issued \cup
           {[user_id |-> r.user.id, at |-> now, secret |-> jwt_secret, token |-> r.token] : r \in body}
    /\ UNCHANGED <<budgets, budget_members, budget_invitations, uuid, observed, pre, accepted, removed,
                   now, jwt_secret, leeway, verified, extracted>>

\* register: the password is hashed, a users row is inserted under a new id
\* (users.email is unique) and the handler goes on to read the row back
RegisterInsert(email, password) ==
    /\ BagCardinality(inflight) < NumTasks
    /\ Cardinality(users) < MaxUsers
    /\ \E id \in Subjects \ {u.id : u \in users}, salt \in Salts :
           IF EmailTaken(email)
           THEN /\ Respond([RegisterCall(email, password) EXCEPT !.id = id],
                           "INTERNAL_SERVER_ERROR", FALSE, NoBody)
                /\ UNCHANGED <<users, inflight>>
           ELSE /\ users' = users \cup
                       {[id |-> id, email |-> email, password_hash |-> hash(password, salt)]}
                /\ inflight' = inflight (+)
                       SetToBag({[RegisterCall(email, password) EXCEPT !.id = id, !.pc = "register_select"]})
                /\ UNCHANGED <<budgets, budget_members, budget_invitations, uuid, observed, pre, last,
                               accepted, removed, auth>>

\* register: the row is read back and the token is made for the id drawn
RegisterSelect(c) ==
    /\ c.pc = "register_select"
    /\ inflight' = inflight (-) SetToBag({c})
    /\ IF SelectUserById(c.id) = {}
       THEN Respond(c, "INTERNAL_SERVER_ERROR", FALSE, NoBody)
       ELSE \E user \in SelectUserById(c.id) :
                Respond(c, "OK", FALSE,
                        {[token |-> Encode([sub |-> c.id, exp |-> now + TokenLifetime], jwt_secret),
                          user |-> user]})
    /\ UNCHANGED users

\* register's INSERT fails
RegisterInsertFails(email, password) ==
    /\ BagCardinality(inflight) < NumTasks
    /\ Respond(RegisterCall(email, password), "INTERNAL_SERVER_ERROR", TRUE, NoBody)
    /\ UNCHANGED <<users, inflight>>

\* register's SELECT fails: the row stays, no token is made
RegisterSelectFails(c) ==
    /\ c.pc = "register_select"
    /\ inflight' = inflight (-) SetToBag({c})
    /\ Respond(c, "INTERNAL_SERVER_ERROR", TRUE, NoBody)
    /\ UNCHANGED users

\* login that makes a token for the user of the email whatever the password
LoginAnyPassword(email, password) ==
    /\ BagCardinality(inflight) < NumTasks
    /\ IF SelectUserByEmail(email) = {}
       THEN Respond(LoginCall(email, password), "UNAUTHORIZED", FALSE, NoBody)
       ELSE \E user \in SelectUserByEmail(email) :
                Respond([LoginCall(email, password) EXCEPT !.id = user.id], "OK", FALSE, AuthResponse(user))
    /\ UNCHANGED <<users, inflight>>

\* login: the row of the email is fetched, the password is verified against
\* its hash and the token is made for its id
login(email, password) ==
    /\ BagCardinality(inflight) < NumTasks
    /\ IF SelectUserByEmail(email) = {}
       THEN Respond(LoginCall(email, password), "UNAUTHORIZED", FALSE, NoBody)
       ELSE \E user \in SelectUserByEmail(email) :
                IF ~verify(password, user.password_hash)
                THEN Respond(LoginCall(email, password), "UNAUTHORIZED", FALSE, NoBody)
                ELSE Respond([LoginCall(email, password) EXCEPT !.id = user.id], "OK", FALSE,
                             AuthResponse(user))
    /\ UNCHANGED <<users, inflight>>

\* login's SELECT fails
LoginSelectFails(email, password) ==
    /\ BagCardinality(inflight) < NumTasks
    /\ Respond(LoginCall(email, password), "UNAUTHORIZED", TRUE, NoBody)
    /\ UNCHANGED <<users, inflight>>

\* ----------------------------------------------------------- specification
\* the store after schema bootstrap, with the users registered
Empty ==
    /\ users = RegisteredUsers
    /\ budgets = {}
    /\ budget_members = {}
    /\ budget_invitations = {}
    /\ uuid = [budget |-> 0, member |-> 0, invitation |-> 0]
    /\ inflight = EmptyBag
    /\ pre = NoSnapshot
    /\ last = NoCall
    /\ accepted = {}
    /\ removed = {}

Init == Empty /\ observed = FALSE /\ NoTokens

\* the calls a client can make
Calls ==
    {CreateBudgetCall(user_id, budget_type) : user_id \in Creators, budget_type \in BudgetTypes}
    \cup {InviteMemberCall(user_id, budget_id, e, r) : user_id \in Subjects, budget_id \in BudgetIds, e \in Emails, r \in Roles}
    \cup {RemoveMemberCall(user_id, budget_id, member_id) : user_id \in Subjects, budget_id \in BudgetIds, member_id \in MemberIds}
    \cup {AcceptInvitationCall(user_id, invitation_id) : user_id \in Subjects, invitation_id \in InvitationIds}
    \cup {RejectInvitationCall(user_id, invitation_id) : user_id \in Subjects, invitation_id \in InvitationIds}
    \cup {DeleteBudgetCall(user_id, budget_id) : user_id \in Subjects, budget_id \in BudgetIds}
    \cup {GetBudgetMembersCall(user_id, budget_id) : user_id \in Subjects, budget_id \in BudgetIds}
    \cup {GetMyInvitationsCall(user_id) : user_id \in Subjects}

\* a request that writes memberships or invitations arrives and its handler
\* runs up to and including its first query
Command ==
    \/ \E user_id \in Creators, budget_type \in BudgetTypes :
           CreateInsertBudget(user_id, budget_type)
    \/ \E user_id \in Subjects, budget_id \in BudgetIds, email \in Emails, role \in Roles :
           InviteCheckOwner(user_id, budget_id, email, role)
    \/ \E user_id \in Subjects, budget_id \in BudgetIds, member_id \in MemberIds :
           RemoveCheckOwner(user_id, budget_id, member_id)
    \/ \E user_id \in Subjects, invitation_id \in InvitationIds :
           AcceptSelectInvitation(user_id, invitation_id)
    \/ \E user_id \in Subjects, invitation_id \in InvitationIds :
           RejectSelectInvitation(user_id, invitation_id)

\* a request to delete a budget arrives, likewise
Deletion ==
    \E user_id \in Subjects, budget_id \in BudgetIds : DeleteCheckOwner(user_id, budget_id)

\* a request that only reads arrives, likewise
Query ==
    \/ \E user_id \in Subjects, budget_id \in BudgetIds :
           GetMembersCheckMember(user_id, budget_id)
    \/ \E user_id \in Subjects :
           GetInvitationsSelectEmail(user_id)

Request == Command \/ Deletion \/ Query

\* a handler in flight runs its next query
Step(c) ==
    \/ CreateInsertOwner(c) \/ CreateSelectBudget(c)
    \/ InviteCheckUser(c) \/ InviteCheckMember(c) \/ InviteInsert(c)
    \/ RemoveDelete(c)
    \/ AcceptSelectUser(c) \/ AcceptInsertMember(c) \/ AcceptUpdateStatus(c)
    \/ RejectSelectUser(c) \/ RejectUpdateStatus(c)
    \/ DeleteCheckMyBudget(c) \/ DeleteBudgetDelete(c)
    \/ GetMembersSelect(c) \/ GetInvitationsSelect(c)

\* a query fails
Failure ==
    \/ \E call \in Calls : FirstQueryFails(call)
    \/ \E c \in BagToSet(inflight) : QueryFails(c)

\* the requests on memberships and invitations arrive at any time and run
\* concurrently; any query may fail. The run keeps no responses, so the
\* requests that only read are left out: they change nothing another handler
\* can see. Budgets are not deleted during these runs.
Next ==
    \/ Command
    \/ \E c \in BagToSet(inflight) : Step(c)
    \/ Failure

Spec == Init /\ [][Next]_vars

\* The client of a serial run takes the response before it sends the next request.
Deliver ==
    /\ observed /\ AllIdle /\ last # NoCall
    /\ pre' = NoSnapshot
    /\ last' = NoCall
    /\ UNCHANGED <<tables, uuid, inflight, observed, accepted, removed, auth>>

\* one request at a time on a store whose queries all succeed; pre and last are kept
SerialInit == Empty /\ observed = TRUE /\ NoTokens

SerialNext ==
    \/ AllIdle /\ last = NoCall /\ Request
    \/ \E c \in BagToSet(inflight) : Step(c)
    \/ Deliver

SerialSpec == SerialInit /\ [][SerialNext]_vars

\* one request at a time on a store any query of which may fail
FaultyNext ==
    \/ AllIdle /\ last = NoCall /\ Request
    \/ \E c \in BagToSet(inflight) : Step(c)
    \/ AllIdle /\ last = NoCall /\ \E call \in Calls : FirstQueryFails(call)
    \/ \E c \in BagToSet(inflight) : QueryFails(c)
    \/ Deliver

FaultySpec == SerialInit /\ [][FaultyNext]_vars

\* invitations are sent, accepted and rejected concurrently on a store whose
\* queries all succeed, and the latest response is kept
RaceNext ==
    \/ \E user_id \in Creators, budget_type \in BudgetTypes :
           CreateInsertBudget(user_id, budget_type)
    \/ \E user_id \in Subjects, budget_id \in BudgetIds, email \in Emails, role \in Roles :
           InviteCheckOwner(user_id, budget_id, email, role)
    \/ \E user_id \in Subjects, invitation_id \in InvitationIds :
           AcceptSelectInvitation(user_id, invitation_id)
    \/ \E user_id \in Subjects, invitation_id \in InvitationIds :
           RejectSelectInvitation(user_id, invitation_id)
    \/ \E c \in BagToSet(inflight) :
           \/ CreateInsertOwner(c) \/ CreateSelectBudget(c)
           \/ InviteCheckUser(c) \/ InviteCheckMember(c) \/ InviteInsert(c)
           \/ AcceptSelectUser(c) \/ AcceptInsertMember(c) \/ AcceptUpdateStatus(c)
           \/ RejectSelectUser(c) \/ RejectUpdateStatus(c)

RaceSpec == SerialInit /\ [][RaceNext]_vars

\* The process starts on the database file of an earlier run, which holds a
\* group budget of Alice with her owner row; the requests of this run name
\* the budgets created in it.
EarlierBudget == 0

Stocked ==
    /\ users = RegisteredUsers
    /\ budgets = {[id |-> EarlierBudget, user_id |-> Alice, budget_type |-> "group"]}
    /\ budget_members = {[id |-> 1, budget_id |-> EarlierBudget, user_id |-> Alice, role |-> "owner"]}
    /\ budget_invitations = {}
    /\ uuid = [budget |-> 0, member |-> 1, invitation |-> 0]
    /\ inflight = EmptyBag
    /\ pre = NoSnapshot
    /\ last = NoCall
    /\ accepted = {}
    /\ removed = {}

StockedInit == Stocked /\ observed = TRUE /\ NoTokens

StockedSpec == StockedInit /\ [][SerialNext]_vars

\* the token codec alone: tokens are issued and verified as time passes, by a
\* process started with either secret and built with either leeway
TokenInit ==
    /\ Empty /\ observed = FALSE
    /\ now = 0
    /\ jwt_secret \in Secrets
    /\ leeway \in Leeways
    /\ issued = {}
    /\ verified = NoVerdict
    /\ extracted = NoIdentity

TokenNext ==
    \/ \E user_id \in Subjects : create_token(user_id)
    \/ \E r \in issued : verify_token(r.token)
    \/ \E time \in Instants : Tick(time)
    \/ \E secret \in Secrets : Restart(secret)

TokenSpec == TokenInit /\ [][TokenNext]_vars

\* the extractor alone, in a process started with either secret: requests
\* carry any header, with tokens issued at start-up, made up or garbage,
\* before and after the issued tokens expire
Expired == TokenLifetime + DefaultLeeway + 1

ExtractorNext ==
    \/ \E user_id \in Subjects : create_token(user_id)
    \/ \E header \in Headers(Presentable) : from_request_parts(header)
    \/ Tick(Expired)

ExtractorSpec == TokenInit /\ [][ExtractorNext]_vars

\* a request of the caller the extractor named arrives at its handler
RequestBy(user_id) ==
    \/ \E budget_type \in BudgetTypes :
           user_id \in Creators /\ CreateInsertBudget(user_id, budget_type)
    \/ \E budget_id \in BudgetIds, email \in Emails, role \in Roles :
           InviteCheckOwner(user_id, budget_id, email, role)
    \/ \E budget_id \in BudgetIds, member_id \in MemberIds :
           RemoveCheckOwner(user_id, budget_id, member_id)
    \/ \E invitation_id \in InvitationIds : AcceptSelectInvitation(user_id, invitation_id)
    \/ \E invitation_id \in InvitationIds : RejectSelectInvitation(user_id, invitation_id)
    \/ \E budget_id \in BudgetIds : DeleteCheckOwner(user_id, budget_id)
    \/ \E budget_id \in BudgetIds : GetMembersCheckMember(user_id, budget_id)
    \/ GetInvitationsSelectEmail(user_id)

\* the headers clients send: none, or a token they were issued
Sent ==
    {NoHeader}
    \cup {[present |-> TRUE, text |-> TRUE, scheme |-> "Bearer ", token |-> r.token] : r \in issued}

\* the extractor has just named user_id as the caller of the request at hand
Admitted(user_id) ==
    /\ extracted.result = [status |-> "OK", user_id |-> user_id]
    /\ extracted.at = now /\ extracted.secret = jwt_secret

\* no request is being served
Idle == AllIdle /\ last = NoCall

\* The whole path of a request, one request at a time: users log in and get
\* tokens, each request passes the extractor and reaches its handler only
\* with the user id the extractor took from its token, and time passes: a
\* second, then until the tokens have expired.
SessionNext ==
    \/ Idle /\ \E user_id \in Subjects : create_token(user_id)
    \/ Idle /\ \E header \in Sent : from_request_parts(header)
    \/ Idle /\ \E user_id \in Subjects : Admitted(user_id) /\ RequestBy(user_id)
    \/ \E c \in BagToSet(inflight) : Step(c)
    \/ Deliver
    \/ Idle /\ \E time \in {1, Expired} : Tick(time)

SessionSpec == SerialInit /\ [][SessionNext]_vars

\* the store after schema bootstrap, before anyone has registered
NoUsers ==
    /\ users = {}
    /\ budgets = {}
    /\ budget_members = {}
    /\ budget_invitations = {}
    /\ uuid = [budget |-> 0, member |-> 0, invitation |-> 0]
    /\ inflight = EmptyBag
    /\ pre = NoSnapshot
    /\ last = NoCall
    /\ accepted = {}
    /\ removed = {}

LoginInit == NoUsers /\ observed = FALSE /\ NoTokens

\* people register and log in concurrently, with any email and password; any
\* query may fail; `last` is the latest response
LoginNext ==
    \/ \E email \in Emails, password \in Passwords : RegisterInsert(email, password)
    \/ \E c \in BagToSet(inflight) : RegisterSelect(c)
    \/ \E email \in Emails, password \in Passwords : login(email, password)
    \/ \E email \in Emails, password \in Passwords : RegisterInsertFails(email, password)
    \/ \E c \in BagToSet(inflight) : RegisterSelectFails(c)
    \/ \E email \in Emails, password \in Passwords : LoginSelectFails(email, password)

LoginSpec == LoginInit /\ [][LoginNext]_vars

\* ================================================================ properties
\* what the claims say, read off the tables before (pre) and after a call

\* the row of invitation `id` in a budget_invitations table, as a set
InvitationIn(invitations, id) == {i \in invitations : i.id = id}

\* the email of user `user_id`, as a set
EmailOf(user_id) == {u.email : u \in {v \in users : v.id = user_id}}

\* user_id has a Membership with role owner in the budget
HasOwnerRole(members, budget_id, user_id) ==
    \E m \in members : m.budget_id = budget_id /\ m.user_id = user_id /\ m.role = "owner"

\* some User with this email has a Membership in the budget
EmailIsMember(members, budget_id, email) ==
    \E m \in members, u \in users : m.budget_id = budget_id /\ m.user_id = u.id /\ u.email = email

\* a call has just returned and its response is not yet taken
Returned(op) == last.call.op = op

\* the call c in flight returns in this step
Returns(c) == inflight' = inflight (-) SetToBag({c})

\* ------------------------------------------------------------------------ C1
\* C1: under any interleaving of accept_invitation and reject_invitation, an
\* invitation whose status is accepted or rejected keeps that status for ever.
C1_StatusIsTerminal ==
    [][\A i \in budget_invitations :
           i.status # "pending" => \E j \in budget_invitations' : j.id = i.id /\ j.status = i.status]_vars

\* ------------------------------------------------------------------------ C2
\* C2: there is at most one Membership row per (budget_id, user_id) pair.
C2_OneMembershipPerUser ==
    \A m1, m2 \in budget_members :
        (m1.budget_id = m2.budget_id /\ m1.user_id = m2.user_id) => m1 = m2

\* ------------------------------------------------------------------------ C3
\* C3: every budget of type group has exactly one Membership row with role
\* owner (stated for the states in which no call is in flight, so that the
\* two inserts of a create_budget still under way do not count against it).
C3_ExactlyOneOwner ==
    AllIdle =>
        \A b \in budgets :
            b.budget_type = "group" =>
                Cardinality({m \in budget_members : m.budget_id = b.id /\ m.role = "owner"}) = 1

\* ------------------------------------------------------------------------ C4
\* C4: no Invitation row carries role owner, and no Membership row with role
\* owner belongs to anyone but the budget's creator.
C4_OwnerNeverInvited ==
    /\ \A i \in budget_invitations : i.role # "owner"
    /\ \A m \in budget_members :
           m.role = "owner" => \E b \in budgets : b.id = m.budget_id /\ b.user_id = m.user_id

\* ------------------------------------------------------------------------ C5
\* C5: when an accept_invitation call returns (with success or any error), it
\* does not leave the Membership it inserted in place while the invitation is
\* still pending.
C5_AcceptAllOrNothing ==
    [][\A c \in BagToSet(inflight) :
           (c.op = "accept_invitation" /\ Returns(c)) =>
               ~ /\ \E m \in budget_members' : m.id = c.member_id
                 /\ \E i \in budget_invitations' : i.id = c.invitation_id /\ i.status = "pending"]_vars

\* ------------------------------------------------------------------------ C6
\* the invitation the returned call named, as the call found it
Found == InvitationIn(pre.budget_invitations, last.call.invitation_id)

\* the returned call was made by the user the invitation i is addressed to
ByInvitee(i) == EmailOf(last.call.user_id) = {i.invitee_email}

\* the invitations as they were, with invitation i in the given status
WithStatus(i, status) ==
    {IF j.id = i.id THEN [j EXCEPT !.status = status] ELSE j : j \in pre.budget_invitations}

C6_AcceptResult ==
    Returned("accept_invitation") =>
        \A i \in Found :
            (i.status = "pending" /\ ByInvitee(i)) =>
                /\ last.result = "OK"
                /\ \E m \in budget_members :
                       /\ budget_members = pre.budget_members \cup {m}
                       /\ m.id \notin {x.id : x \in pre.budget_members}
                       /\ m.budget_id = i.budget_id
                       /\ m.user_id = last.call.user_id
                       /\ m.role = i.role
                /\ budget_invitations = WithStatus(i, "accepted")

\* the returned accept_invitation was on an invitation accepted by an earlier call
LaterAccept ==
    /\ Returned("accept_invitation")
    /\ last.call.invitation_id \in accepted
    /\ \A i \in Found : i.status # "pending"

\* C6 as stated: accept_invitation on a pending invitation by its invitee
\* returns OK, adds exactly one Membership row (invitation.budget_id, caller,
\* invitation.role) and sets the status to accepted; every later
\* accept_invitation on the same invitation returns BAD_REQUEST and adds no
\* Membership row.
C6_AcceptOnce ==
    /\ C6_AcceptResult
    /\ LaterAccept => (last.result = "BAD_REQUEST" /\ budget_members = pre.budget_members)

\* C6 amended: accept_invitation on a pending invitation by its invitee
\* returns OK, adds exactly one Membership row (invitation.budget_id, caller,
\* invitation.role) and sets the status to accepted; every later
\* accept_invitation on the same invitation adds no Membership row and
\* returns BAD_REQUEST while the invitation exists, NOT_FOUND once it is gone
\* with its budget.
C6_AcceptOnceWhileKept ==
    /\ C6_AcceptResult
    /\ LaterAccept =>
           /\ last.result = IF Found = {} THEN "NOT_FOUND" ELSE "BAD_REQUEST"
           /\ budget_members = pre.budget_members

\* a second accept_invitation on an invitation accepted before has returned
C6_Witness ==
    /\ LaterAccept /\ last.result = "BAD_REQUEST"
    /\ \E i \in Found : i.status = "accepted" /\ ByInvitee(i)
    /\ \E m \in budget_members : m.user_id = last.call.user_id /\ m.role # "owner"

\* ------------------------------------------------------------------------ C7
TablesUntouched ==
    /\ budgets = pre.budgets
    /\ budget_members = pre.budget_members
    /\ budget_invitations = pre.budget_invitations

\* C7: accept_invitation and reject_invitation return NOT_FOUND when no
\* invitation has the id, BAD_REQUEST when it exists and is not pending, and
\* FORBIDDEN when it is pending and addressed to another email than the
\* caller's own; in all three cases no row is created or changed.
C7_InvitationPreconditions ==
    (Returned("accept_invitation") \/ Returned("reject_invitation")) =>
        /\ Found = {} => (last.result = "NOT_FOUND" /\ TablesUntouched)
        /\ \A i \in Found :
               /\ i.status # "pending" => (last.result = "BAD_REQUEST" /\ TablesUntouched)
               /\ (i.status = "pending" /\ EmailOf(last.call.user_id) # {} /\ ~ByInvitee(i)) =>
                      (last.result = "FORBIDDEN" /\ TablesUntouched)

\* a user has tried to accept a pending invitation addressed to someone else
C7_Witness ==
    /\ Returned("accept_invitation") /\ last.result = "FORBIDDEN"
    /\ \E i \in Found : i.status = "pending" /\ ~ByInvitee(i)

\* ------------------------------------------------------------------------ C8
\* C8: reject_invitation on a pending invitation by its invitee returns OK and
\* its only effect is that invitation's status becoming rejected: budgets,
\* Membership rows, every other invitation and the other fields of this one
\* are as before.
C8_RejectFrame ==
    Returned("reject_invitation") =>
        \A i \in Found :
            (i.status = "pending" /\ ByInvitee(i)) =>
                /\ last.result = "OK"
                /\ budgets = pre.budgets
                /\ budget_members = pre.budget_members
                /\ budget_invitations = WithStatus(i, "rejected")

\* an invitee has rejected one of two invitations of a budget with members
C8_Witness ==
    /\ Returned("reject_invitation") /\ last.result = "OK"
    /\ \E i \in Found : i.status = "pending" /\ ByInvitee(i)
    /\ Cardinality(budget_invitations) >= 2
    /\ \E j \in budget_invitations : j.status = "pending"
    /\ budget_members # {}

\* ------------------------------------------------------------------------ C9
InviterIsOwner == HasOwnerRole(pre.budget_members, last.call.budget_id, last.call.user_id)

InviteeExists == \E u \in users : u.email = last.call.email

InviteeIsMember == EmailIsMember(pre.budget_members, last.call.budget_id, last.call.email)

\* C9: invite_member returns FORBIDDEN when the caller has no owner Membership
\* in the budget, NOT_FOUND when the caller is owner and no User has the
\* email, CONFLICT when the caller is owner and the User with that email is a
\* member already; in each case no Invitation row is inserted.
C9_InviteErrors ==
    Returned("invite_member") =>
        /\ ~InviterIsOwner => last.result = "FORBIDDEN"
        /\ (InviterIsOwner /\ ~InviteeExists) => last.result = "NOT_FOUND"
        /\ (InviterIsOwner /\ InviteeExists /\ InviteeIsMember) => last.result = "CONFLICT"
        /\ (~InviterIsOwner \/ ~InviteeExists \/ InviteeIsMember) => TablesUntouched

\* an owner has invited the email of a user who is a member already
C9_Witness ==
    /\ Returned("invite_member") /\ last.result = "CONFLICT"
    /\ InviterIsOwner /\ InviteeExists /\ InviteeIsMember

\* ----------------------------------------------------------------------- C10
\* C10: invite_member by an owner for the email of an existing User who is no
\* member returns CREATED and inserts one new pending Invitation, also when a
\* pending invitation for the same (budget, email) exists already.
C10_InviteAlwaysInserts ==
    (Returned("invite_member") /\ InviterIsOwner /\ InviteeExists /\ ~InviteeIsMember) =>
        /\ last.result = "CREATED"
        /\ \E n \in budget_invitations :
               /\ budget_invitations = pre.budget_invitations \cup {n}
               /\ n.id \notin {i.id : i \in pre.budget_invitations}
               /\ n.budget_id = last.call.budget_id
               /\ n.inviter_id = last.call.user_id
               /\ n.invitee_email = last.call.email
               /\ n.role = last.call.role
               /\ n.status = "pending"
        /\ budgets = pre.budgets
        /\ budget_members = pre.budget_members

\* two pending invitations for the same (budget, email): the second invite
\* has just returned CREATED
C10_Witness ==
    /\ Returned("invite_member") /\ last.result = "CREATED"
    /\ \E i, j \in budget_invitations :
           /\ i.id # j.id
           /\ i.budget_id = j.budget_id /\ i.invitee_email = j.invitee_email
           /\ i.status = "pending" /\ j.status = "pending"

\* ----------------------------------------------------------------------- C11
\* the roles user_id holds in the budget, in a budget_members table
RolesIn(members, budget_id, user_id) ==
    {m.role : m \in {x \in members : x.budget_id = budget_id /\ x.user_id = user_id}}

\* the caller of the returned call was a member of its budget, never as owner
CallerBelowOwner ==
    /\ RolesIn(pre.budget_members, last.call.budget_id, last.call.user_id) # {}
    /\ RolesIn(pre.budget_members, last.call.budget_id, last.call.user_id) \subseteq {"admin", "member"}

\* C11: a caller whose Membership rows in the budget all have role admin or
\* member receives FORBIDDEN from invite_member and from remove_member, and
\* the store is unchanged: the owner check is exact role equality.
C11_NoRoleHierarchy ==
    ((Returned("invite_member") \/ Returned("remove_member")) /\ CallerBelowOwner) =>
        (last.result = "FORBIDDEN" /\ TablesUntouched)

\* an admin of the budget has tried to remove a member
C11_Witness ==
    /\ Returned("remove_member") /\ last.result = "FORBIDDEN"
    /\ "admin" \in RolesIn(pre.budget_members, last.call.budget_id, last.call.user_id)
    /\ \E m \in pre.budget_members : m.id = last.call.member_id /\ m.budget_id = last.call.budget_id

\* ----------------------------------------------------------------------- C12
\* the budget the returned call named, as the call found it
BudgetFound == {b \in pre.budgets : b.id = last.call.budget_id}

\* the caller may delete the budget: as an owner of it, or as the creator of
\* a personal budget
MayDelete ==
    \/ HasOwnerRole(pre.budget_members, last.call.budget_id, last.call.user_id)
    \/ \E b \in BudgetFound : b.budget_type = "personal" /\ b.user_id = last.call.user_id

\* C12: delete_budget deletes the budget if and only if the caller has an
\* owner Membership in it or it is a personal budget the caller created;
\* otherwise it returns FORBIDDEN and the budget remains.
C12_DeleteOnlyIfAuthorized ==
    Returned("delete_budget") =>
        /\ MayDelete =>
               (last.result = "NO_CONTENT" /\ \A b \in budgets : b.id # last.call.budget_id)
        /\ ~MayDelete =>
               (last.result = "FORBIDDEN" /\ budgets = pre.budgets)

\* ----------------------------------------------------------------------- C13
\* C13: remove_member deletes a Membership row only when the caller has an
\* owner Membership in the budget named in the request, and then only a row
\* of that budget; for every other caller it returns FORBIDDEN and the
\* Membership rows are unchanged.
C13_RemoveOnlyByOwner ==
    Returned("remove_member") =>
        /\ ~HasOwnerRole(pre.budget_members, last.call.budget_id, last.call.user_id) =>
               (last.result = "FORBIDDEN" /\ budget_members = pre.budget_members)
        /\ budget_members # pre.budget_members =>
               /\ HasOwnerRole(pre.budget_members, last.call.budget_id, last.call.user_id)
               /\ budget_members \subseteq pre.budget_members
               /\ \A m \in pre.budget_members \ budget_members :
                      m.id = last.call.member_id /\ m.budget_id = last.call.budget_id

\* an owner has removed another user's Membership row
C13_Witness ==
    /\ Returned("remove_member") /\ last.result = "NO_CONTENT"
    /\ \E m \in pre.budget_members \ budget_members : m.user_id # last.call.user_id

\* ----------------------------------------------------------------------- C14
\* the caller of the returned call had a Membership row in its budget
CallerWasMember ==
    \E m \in pre.budget_members :
        m.budget_id = last.call.budget_id /\ m.user_id = last.call.user_id

\* the members of the returned call's budget, each with the email of its user
MemberList ==
    {[id |-> m.id, budget_id |-> m.budget_id, user_id |-> m.user_id, role |-> m.role,
      user_email |-> e] :
        <<m, e>> \in {x \in pre.budget_members \X Emails :
                         x[1].budget_id = last.call.budget_id /\ EmailOf(x[1].user_id) = {x[2]}}}

\* C14: get_budget_members returns the member list of the budget if and only
\* if the caller has a Membership row in it; otherwise it returns FORBIDDEN
\* and no member data.
C14_MembersOnlyToMembers ==
    Returned("get_budget_members") =>
        /\ CallerWasMember => (last.result = "OK" /\ last.call.rows = MemberList)
        /\ ~CallerWasMember => (last.result = "FORBIDDEN" /\ last.call.rows = {})

\* a member who is no owner has listed the two members of the budget
C14_Witness ==
    /\ Returned("get_budget_members") /\ last.result = "OK"
    /\ Cardinality(last.call.rows) >= 2
    /\ ~HasOwnerRole(pre.budget_members, last.call.budget_id, last.call.user_id)

\* ----------------------------------------------------------------------- C15
\* C15: create_budget with type group inserts exactly one Membership row,
\* (new budget, creator, owner), so that the creator's only role in the new
\* budget is owner; create_budget with type personal inserts no Membership.
C15_CreateAddsOwner ==
    Returned("create_budget") =>
        /\ last.result = "OK"
        /\ last.call.budget_id \notin {b.id : b \in pre.budgets}
        /\ budgets = pre.budgets \cup
               {[id |-> last.call.budget_id, user_id |-> last.call.user_id,
                 budget_type |-> last.call.budget_type]}
        /\ last.call.budget_type = "group" =>
               /\ \E m \in budget_members \ pre.budget_members :
                      /\ budget_members = pre.budget_members \cup {m}
                      /\ m.budget_id = last.call.budget_id
                      /\ m.user_id = last.call.user_id
                      /\ m.role = "owner"
               /\ RolesIn(budget_members, last.call.budget_id, last.call.user_id) = {"owner"}
        /\ last.call.budget_type = "personal" => budget_members = pre.budget_members

\* a group budget has been created
C15_Witness ==
    /\ Returned("create_budget") /\ last.call.budget_type = "group"
    /\ HasOwnerRole(budget_members, last.call.budget_id, last.call.user_id)
    /\ ~HasOwnerRole(pre.budget_members, last.call.budget_id, last.call.user_id)

\* ----------------------------------------------------------------------- C16
\* the ids of the budgets in a budgets table
IdsOf(rows) == {b.id : b \in rows}

AdminInvitationByOwner(p) ==
    /\ p.role = "admin"
    /\ HasOwnerRole(pre.budget_members, p.budget_id, p.inviter_id)

\* C18: end to end: owner O has created group budget G and invited carol's
\* email as admin (invitation P, pending); when Carol's accept_invitation(P)
\* has returned OK the store holds Membership (G, O, owner) and Membership
\* (G, carol, admin) and P is accepted, and get_my_invitations never
\* includes an accepted invitation, so not P.
C18_EndToEnd ==
    /\ (Returned("accept_invitation") /\ last.result = "OK") =>
           \A p \in Found :
               AdminInvitationByOwner(p) =>
                   /\ HasOwnerRole(budget_members, p.budget_id, p.inviter_id)
                   /\ \E m \in budget_members :
                          /\ m.budget_id = p.budget_id
                          /\ m.user_id = last.call.user_id
                          /\ m.role = "admin"
                   /\ \E q \in budget_invitations : q.id = p.id /\ q.status = "accepted"
                   /\ \A e \in EmailOf(last.call.user_id) :
                          \A q \in SelectPendingInvitations(e) : q.id # p.id
    /\ Returned("get_my_invitations") =>
           \A i \in pre.budget_invitations : i.status = "accepted" => i \notin last.call.rows

\* the end of the scenario: Carol lists her invitations after she accepted
\* Alice's invitation to be admin of Alice's budget
C18_Witness ==
    /\ Returned("get_my_invitations") /\ last.result = "OK" /\ last.call.user_id = Carol
    /\ \E p \in budget_invitations :
           /\ p.status = "accepted" /\ p.role = "admin" /\ p.inviter_id = Alice
           /\ EmailOf(Carol) = {p.invitee_email}
           /\ p \notin last.call.rows
           /\ HasOwnerRole(budget_members, p.budget_id, Alice)
           /\ "admin" \in RolesIn(budget_members, p.budget_id, Carol)

\* ----------------------------------------------------------------------- C19
\* the create_token calls whose token the latest verify_token was given
IssuesVerified == {r \in issued : r.token = verified.token}

\* C19: for every user id u, verify_token(create_token(u)) succeeds and its
\* subject equals u, when both calls run with the same secret and the
\* verification is not after the token's expiry.
C19_TokenRoundTrip ==
    \A r \in IssuesVerified :
        (verified.secret = r.secret /\ verified.at <= r.at + TokenLifetime) =>
            (verified.error = "none" /\ verified.claims.sub = r.user_id)

\* a token has been verified at the very second it expires, after the
\* process ran with another secret in between
C19_Witness ==
    \E r \in IssuesVerified :
        /\ verified.secret = r.secret /\ r.secret # "secret"
        /\ verified.at = r.at + TokenLifetime
        /\ verified.claims.sub = Carol /\ r.user_id = Carol

\* ----------------------------------------------------------------------- C20
\* C20: a token issued at time t carries exp = t + 24 hours; verify_token
\* accepts it at every time up to exp and fails with ExpiredSignature at
\* every time strictly after exp.
C20_ExpiresAfter24Hours ==
    /\ \A r \in issued : r.token.payload.exp = r.at + TokenLifetime
    /\ \A r \in IssuesVerified :
           verified.secret = r.secret =>
               /\ verified.at <= r.token.payload.exp => verified.error = "none"
               /\ verified.at > r.token.payload.exp => verified.error = "ExpiredSignature"

\* ----------------------------------------------------------------------- C21
\* the latest request carried a well-formed token in a Bearer header
BearerToken ==
    /\ extracted.header.present /\ extracted.header.text
    /\ extracted.header.scheme = "Bearer "
    /\ extracted.header.token # Malformed

\* the secret a well-formed token was signed with
SignedWith(token) == token.signature[2]

\* C21: every token signed with a secret different from the verifier's fails
\* verify_token, with an invalid-signature error, and the extractor then
\* answers 401, whatever subject and expiry the token claims.
C21_WrongSecretRejected ==
    (BearerToken /\ SignedWith(extracted.header.token) # extracted.secret) =>
        /\ verified.token = extracted.header.token
        /\ verified.at = extracted.at /\ verified.secret = extracted.secret
        /\ verified.error = "InvalidSignature"
        /\ extracted.result = Unauthorized

\* a made-up token naming Alice, far from expiry, signed with a guessed secret
\* has been refused
C21_Witness ==
    /\ BearerToken
    /\ SignedWith(extracted.header.token) = "guess"
    /\ extracted.header.token.payload.sub = Alice
    /\ extracted.header.token.payload.exp > extracted.at
    /\ extracted.result = Unauthorized

\* ----------------------------------------------------------------------- C22
\* verify_token would fail on the token of the latest request
TokenFails ==
    Decode(extracted.header.token, extracted.secret, extracted.at, leeway).error # "none"

\* C22: the extractor has two outcomes. A request without Authorization
\* header, with a header that does not start with "Bearer ", or with a token
\* verify_token fails on gets the one bare status 401, the same for every
\* cause; every other request gets the subject of its token as user id.
C22_TwoOutcomes ==
    extracted # NoIdentity =>
        IF ~extracted.header.present \/ extracted.header.scheme # "Bearer " \/ TokenFails
        THEN extracted.result = Unauthorized
        ELSE extracted.result = [status |-> "OK", user_id |-> extracted.header.token.payload.sub]

\* a token verify_token accepts has been refused under another scheme, and
\* the answer is the one a request without header gets
C22_Witness ==
    /\ extracted.header.present /\ extracted.header.scheme = "Basic "
    /\ ~TokenFails
    /\ extracted.header.token.payload.sub = Carol
    /\ extracted.result = Unauthorized
    /\ extracted.result = [status |-> "UNAUTHORIZED", user_id |-> ""]

\* ----------------------------------------------------------------------- C23
\* the returned call is one that looks up the caller's email
ResolvesEmail == last.call.op \in {"get_my_invitations", "accept_invitation", "reject_invitation"}

\* C23: a valid token whose subject has no users row passes the extractor,
\* and get_my_invitations, accept_invitation and reject_invitation called
\* with it return NOT_FOUND and leave the tables as they were.
C23_UnknownSubjectNotFound ==
    (ResolvesEmail /\ EmailOf(last.call.user_id) = {}) =>
        /\ extracted.result = [status |-> "OK", user_id |-> last.call.user_id]
        /\ last.result = "NOT_FOUND"
        /\ TablesUntouched

\* ----------------------------------------------------------------------- C24
\* C24: when a query of invite_member, remove_member, get_budget_members,
\* delete_budget, accept_invitation or reject_invitation fails in the store,
\* the call returns INTERNAL_SERVER_ERROR, and no other status.
C24_StoreFailureIs500 ==
    (last.failure /\ last.call.op \in {"invite_member", "remove_member", "get_budget_members",
                                        "delete_budget", "accept_invitation", "reject_invitation"}) =>
        last.result = "INTERNAL_SERVER_ERROR"

\* ----------------------------------------------------------------------- C25
\* the statuses that refuse a request
Refusals == {"UNAUTHORIZED", "FORBIDDEN", "NOT_FOUND", "BAD_REQUEST", "CONFLICT"}

Writers ==
    {"invite_member", "remove_member", "delete_budget", "accept_invitation", "reject_invitation"}

\* C25: whenever invite_member, remove_member, delete_budget,
\* accept_invitation or reject_invitation answers UNAUTHORIZED, FORBIDDEN,
\* NOT_FOUND, BAD_REQUEST or CONFLICT, in the extractor or in the handler,
\* the users, budgets, memberships and invitations are exactly as they were
\* before the call.
C25_RefusalsChangeNothing ==
    [][/\ (extracted' # extracted /\ extracted'.result.status \in Refusals) => UNCHANGED tables
       /\ (last' # last /\ last'.call.op \in Writers /\ last'.result \in Refusals) =>
              /\ users' = users
              /\ budgets' = pre'.budgets
              /\ budget_members' = pre'.budget_members
              /\ budget_invitations' = pre'.budget_invitations]_vars

\* Alice, who owns the budget, has been refused when she tried to accept the
\* invitation she sent to Carol, and the invitation is pending as before
C25_Witness ==
    /\ Returned("accept_invitation") /\ last.result = "FORBIDDEN" /\ last.call.user_id = Alice
    /\ HasOwnerRole(budget_members, last.call.budget_id, Alice)
    /\ \E i \in budget_invitations :
           i.id = last.call.invitation_id /\ i.status = "pending" /\ EmailOf(Carol) = {i.invitee_email}
    /\ TablesUntouched

\* ----------------------------------------------------------------------- C26
\* the user has accepted an invitation to a budget that still exists and has
\* no Membership in that budget
Removed(snapshot, user_id) ==
    \E i \in snapshot.budget_invitations, b \in snapshot.budgets :
        /\ i.budget_id = b.id /\ i.status = "accepted" /\ EmailOf(user_id) = {i.invitee_email}
        /\ ~\E m \in snapshot.budget_members : m.budget_id = b.id /\ m.user_id = user_id

\* C26: the outcome of verify_token is a function of the token, the secret
\* and the time of the call alone: it succeeds, with the token's own claims,
\* exactly when the token is well formed, signed with the secret and not past
\* its expiry, whatever requests the store has served; no token is revoked.
C26_Stateless ==
    verified # NoVerdict =>
        /\ verified.error = "none" <=>
               /\ verified.token # Malformed
               /\ verified.token.signature = Sign(verified.secret, verified.token.payload)
               /\ verified.token.payload.exp >= verified.at - leeway
        /\ verified.error = "none" => verified.claims = verified.token.payload

\* Carol's token has been verified for a request she made after she was
\* removed from the budget she had joined, and it was accepted
C26_Witness ==
    /\ Returned("get_my_invitations") /\ last.result = "OK" /\ last.call.user_id = Carol
    /\ Removed(pre, Carol)
    /\ verified.error = "none" /\ verified.claims.sub = Carol
    /\ extracted.header.token = verified.token
    /\ extracted.result = [status |-> "OK", user_id |-> Carol]

\* ----------------------------------------------------------------------- C28
\* the returned call needs a Membership of its caller in its budget
NeedsMembership == last.call.op \in {"get_budget_members", "invite_member", "remove_member"}

\* before the returned call arrived, a remove_member had deleted the only
\* Membership row its caller had in its budget
CallerWasRemoved ==
    [budget_id |-> last.call.budget_id, user_id |-> last.call.user_id] \in pre.removed

\* the extractor took the caller of the returned call from a valid token
TokenStillValid ==
    /\ extracted.result = [status |-> "OK", user_id |-> last.call.user_id]
    /\ verified.token = extracted.header.token /\ verified.error = "none"

Runs(c) == CopiesIn(c, inflight') < CopiesIn(c, inflight)

\* C27: the pending check of accept_invitation is not repeated and nothing
\* locks the invitation: every accept_invitation that has passed the check
\* inserts its Membership row and returns OK with the invitation accepted,
\* whatever another request did to the invitation in the meantime; so two
\* concurrent accepts of one pending invitation both succeed and leave two
\* Membership rows.
C27_AcceptRace ==
    [][\A c \in BagToSet(inflight) :
           /\ (c.pc = "accept_insert_member" /\ Runs(c)) =>
                  \E m \in budget_members' \ budget_members :
                      m.budget_id = c.budget_id /\ m.user_id = c.user_id /\ m.role = c.role
           /\ (c.pc = "accept_update_status" /\ Runs(c)) =>
                  /\ last'.call = c /\ last'.result = "OK"
                  /\ \A i \in InvitationIn(budget_invitations', c.invitation_id) :
                         i.status = "accepted"]_vars

\* two accept_invitation calls of Carol on the only invitation there has been
\* have both inserted a row: one has returned OK and marked the invitation
\* accepted, the other is about to
C27_Witness ==
    /\ uuid.invitation = 1
    /\ Returned("accept_invitation") /\ last.result = "OK" /\ last.call.user_id = Carol
    /\ \E i \in budget_invitations : i.id = last.call.invitation_id /\ i.status = "accepted"
    /\ \E c \in BagToSet(inflight) :
           /\ c.pc = "accept_update_status" /\ c.user_id = Carol
           /\ c.invitation_id = last.call.invitation_id
           /\ c.member_id # last.call.member_id
           /\ \E m, k \in budget_members :
                  /\ m.id = c.member_id /\ k.id = last.call.member_id
                  /\ m.budget_id = k.budget_id /\ m.user_id = Carol /\ k.user_id = Carol

\* ----------------------------------------------------------------------- C29
\* the Membership row m is written in this step by create_budget, as the
\* owner row of the creator of its budget
OwnerRowOfCreator(m) ==
    /\ m.role = "owner"
    /\ \E b \in budgets : b.id = m.budget_id /\ b.user_id = m.user_id
    /\ \E c \in BagToSet(inflight) :
           c.op = "create_budget" /\ Runs(c) /\ c.budget_id = m.budget_id /\ c.user_id = m.user_id

\* the Membership row m is written in this step by an accept_invitation of an
\* invitation to m's budget with m's role, addressed to the email of m's user
RowOfInvitee(m) ==
    \E c \in BagToSet(inflight), i \in budget_invitations :
        /\ c.op = "accept_invitation" /\ Runs(c) /\ c.invitation_id = i.id /\ c.user_id = m.user_id
        /\ i.budget_id = m.budget_id /\ i.role = m.role /\ EmailOf(m.user_id) = {i.invitee_email}

\* C29: every Membership row that is written is either the owner row
\* create_budget inserts for the budget's creator, or is inserted by an
\* accept_invitation of an invitation for the same budget and role whose
\* invitee email is the user's; and every invitation that is written has as
\* inviter a user who holds role owner in its budget at that time.
C29_MembershipByInvitation ==
    [][/\ \A m \in budget_members' \ budget_members : OwnerRowOfCreator(m) \/ RowOfInvitee(m)
       /\ \A i \in budget_invitations' :
              InvitationIn(budget_invitations, i.id) = {} =>
                  HasOwnerRole(budget_members, i.budget_id, i.inviter_id)]_vars

\* Carol is an admin of Alice's budget by a row her accept_invitation
\* inserted, for the invitation that Alice, its owner, had sent her
C29_Witness ==
    /\ Returned("accept_invitation") /\ last.result = "OK" /\ last.call.user_id = Carol
    /\ \E m \in budget_members \ pre.budget_members, i \in Found :
           /\ m.id = last.call.member_id /\ m.user_id = Carol /\ m.role = "admin"
           /\ i.role = "admin" /\ i.budget_id = m.budget_id /\ i.inviter_id = Alice
           /\ HasOwnerRole(budget_members, m.budget_id, Alice)
           /\ \E b \in budgets : b.id = m.budget_id /\ b.user_id = Alice

\* ----------------------------------------------------------------------- C30
\* the personal budgets among `all`
Personal(all) == {b \in all : b.budget_type = "personal"}

\* the returned call is one whose handler checks the caller against its budget
ChecksCaller ==
    last.call.op \in {"invite_member", "remove_member", "get_budget_members", "delete_budget"}

\* C30: no Membership row and no Invitation row references a personal
\* budget; invite_member on a personal budget returns FORBIDDEN for every
\* caller, its creator included, and no one but the creator passes any
\* handler's check of the caller on a personal budget.
C30_PersonalBudgetsUnshared ==
    /\ \A b \in Personal(budgets) :
           /\ \A m \in budget_members : m.budget_id # b.id
           /\ \A i \in budget_invitations : i.budget_id # b.id
    /\ \A b \in Personal(pre.budgets) :
           (ChecksCaller /\ last.call.budget_id = b.id) =>
               /\ Returned("invite_member") => last.result = "FORBIDDEN"
               /\ last.call.user_id # b.user_id => last.result = "FORBIDDEN"

\* the creator of a personal budget has tried to invite Carol to it and has
\* been refused
C30_Witness ==
    /\ Returned("invite_member") /\ last.result = "FORBIDDEN"
    /\ EmailOf(Carol) = {last.call.email}
    /\ \E b \in Personal(budgets) : b.id = last.call.budget_id /\ b.user_id = last.call.user_id

\* ----------------------------------------------------------------------- C31
\* the Membership rows with both ids of the returned call
Matching ==
    {m \in pre.budget_members :
        m.id = last.call.member_id /\ m.budget_id = last.call.budget_id}

\* C31: remove_member(budget_id, member_id) by an owner of budget_id returns
\* NO_CONTENT and deletes the Membership rows with that id in that budget,
\* nothing else: rows of other budgets, other rows of the budget, budgets
\* and invitations stay, and when no row has both ids nothing is deleted.
C31_RemoveFrame ==
    (Returned("remove_member")
     /\ HasOwnerRole(pre.budget_members, last.call.budget_id, last.call.user_id)) =>
        /\ last.result = "NO_CONTENT"
        /\ budget_members = pre.budget_members \ Matching
        /\ Cardinality(Matching) <= 1
        /\ budgets = pre.budgets
        /\ budget_invitations = pre.budget_invitations

\* an owner has named, in her budget, the id of a Membership row of another
\* budget: the call has returned NO_CONTENT and the row is still there
C31_Witness ==
    /\ Returned("remove_member") /\ last.result = "NO_CONTENT"
    /\ HasOwnerRole(pre.budget_members, last.call.budget_id, last.call.user_id)
    /\ Matching = {}
    /\ \E m \in budget_members : m.id = last.call.member_id /\ m.budget_id # last.call.budget_id
    /\ \E m \in budget_members : m.id # last.call.member_id /\ m.budget_id = last.call.budget_id

\* ----------------------------------------------------------------------- C32
\* C32: for a caller without an owner Membership in the budget, invite_member
\* answers FORBIDDEN and writes nothing, whether the invited email belongs
\* to no user, to a user outside the budget or to a member of it.
C32_NonOwnerLearnsNothing ==
    (Returned("invite_member")
     /\ ~HasOwnerRole(pre.budget_members, last.call.budget_id, last.call.user_id)) =>
        /\ last.result = "FORBIDDEN"
        /\ TablesUntouched

\* Carol, a member but not an owner of the budget, has named the email of no
\* user and has been answered as she is for the email of a member
C32_Witness ==
    /\ Returned("invite_member") /\ last.call.user_id = Carol
    /\ CallerWasMember
    /\ ~HasOwnerRole(pre.budget_members, last.call.budget_id, Carol)
    /\ EmailIsMember(pre.budget_members, last.call.budget_id, "alice@x.com")
    /\ \A u \in users : u.email # last.call.email
    /\ last.result = "FORBIDDEN"

\* ----------------------------------------------------------------------- C33
\* the users whose email and stored hash the call's email and password match
Matches(call) ==
    {u \in users : u.email = call.email /\ verify(call.password, u.password_hash)}

\* the subject verify_token reads from the token of a response
SubjectOf(r) == Decode(r.token, jwt_secret, now, leeway)

\* C33: a login that returns a token was made with the email of a user and a
\* password that matches that user's stored hash, and the token's subject is
\* that user's id; a login with an email no user has or with a password that
\* does not match returns 401 and no token; a register that returns a token
\* returns one whose subject is the id of the users row it inserted.
C33_LoginAndRegister ==
    /\ Returned("login") =>
           /\ last.body # NoBody =>
                  /\ last.result = "OK"
                  /\ \A r \in last.body :
                         /\ r.user \in Matches(last.call)
                         /\ SubjectOf(r) = [error |-> "none", claims |-> [sub |-> r.user.id, exp |-> now + TokenLifetime]]
           /\ Matches(last.call) = {} => last.result = "UNAUTHORIZED" /\ last.body = NoBody
    /\ (Returned("register") /\ last.body # NoBody) =>
           /\ last.result = "OK"
           /\ \A r \in last.body :
                  /\ r.user \in users
                  /\ r.user.id = last.call.id /\ r.user.email = last.call.email
                  /\ verify(last.call.password, r.user.password_hash)
                  /\ SubjectOf(r) = [error |-> "none", claims |-> [sub |-> last.call.id, exp |-> now + TokenLifetime]]

\* the second of two registered users has logged in and got a token, and a
\* token was made at the registration of the other
C33_Witness ==
    /\ Returned("login") /\ last.result = "OK" /\ last.body # NoBody
    /\ Cardinality(users) = 2
    /\ \E r \in issued : r.user_id # last.call.id /\ r.user_id \in {u.id : u \in users}

====
